---- MODULE Spec2Model ----
(***************************************************************************)
(* Loan default detection: the risk-scoring pipeline (PredictorService),   *)
(* the prediction/alert ledger (SQLAlchemy session over two tables), the   *)
(* Flask endpoints built on them, and the lending rule engine.             *)
(*                                                                         *)
(* Units.  A probability or a risk threshold is an integer number of       *)
(* hundredths (0.20 is 20).  A debt-to-income value is an integer number   *)
(* of ten-thousandths (the ratio 0.45 is 4500, the percentage 45.0 is      *)
(* 450000), so that the division by 100 of _normalize_dti is exact.        *)
(***************************************************************************)
EXTENDS Integers, Sequences, FiniteSets, TLC

VARIABLES
    service,      \* "up" once PredictorService is constructed, "rejected" when its configuration was refused
    thresholds,   \* PredictorService.thresholds: [low, medium]
    pipeline,     \* PredictorService._pipeline: the loaded scoring function, feature row -> probability
    predictions,  \* table prediction_logs: the committed rows, in insertion order
    alerts,       \* table risk_alerts: the committed rows, in insertion order
    session,      \* the open SQLAlchemy session: rows flushed but not committed, objects added but not flushed
    call,         \* the request being served: position in predict_one / predict_batch and its locals
    http,         \* the HTTP response of the last finished request
    fn,           \* the pure-function harness: inputs drawn and the value computed from them
    clock,        \* the database server's clock, in the seconds CURRENT_TIMESTAMP resolves
    loader        \* the lru_cache'd loaders and the threads that ask them for the service

vars == <<service, thresholds, pipeline, predictions, alerts, session, call, http, fn, clock, loader>>

----------------------------------------------------------------------------
(* Bounds of the model *)

\* committed prediction rows the ledger may hold before requests stop arriving
MaxRows == 2
\* longest list a batch request carries
MaxBatch == 2

\* probabilities the scoring function may return (hundredths)
Probs == {10, 30, 60, 90}
\* what stands for predict_proba raising instead of returning
ScoreRaises == -1
\* application_id values of a payload; NoId is None
NoId == "None"
AppIds == {NoId, "APP-1"}
\* credit_score values a payload may carry: below the lower bound, and in range
CreditScores == {299, 720}
\* dti values a payload may carry (ten-thousandths): 15.0 as in the tests
Dtis == {150000}
\* what stands for the remaining feature columns of a payload
Profiles == {1, 2}
\* (low, medium) pairs a configuration file may carry (hundredths)
ConfigPairs == {<<30, 60>>, <<30, 30>>, <<60, 30>>, <<30, 130>>}

----------------------------------------------------------------------------
(* Configuration: utils/config.py *)

\* RiskThresholds with the field bounds only, validate_medium left out
RiskThresholdsValidUnordered(low, medium) ==
    /\ 0 <= low /\ low <= 100
    /\ 0 <= medium /\ medium <= 100

\* RiskThresholds: both fields in [0,1], and validate_medium refuses medium < low
RiskThresholdsValid(low, medium) ==
    /\ 0 <= low /\ low <= 100
    /\ 0 <= medium /\ medium <= 100
    /\ ~(medium < low)

----------------------------------------------------------------------------
(* Feature contract: services/predictor.py, LoanApplication *)

\* the payloads requests carry: every valid one, and one whose credit_score is out of
\* bounds; profile stands for the other nine features, all present and within bounds
Payloads ==
    {p \in [application_id : AppIds, credit_score : CreditScores, dti : Dtis, profile : Profiles] :
        p.credit_score < 300 => (p.application_id = NoId /\ p.profile = 1)}

NumericFields ==
    {"loan_amount", "interest_rate", "annual_income", "credit_score", "employment_length",
     "dti", "num_delinquencies", "previous_defaults"}

CategoricalFields == {"home_ownership", "purpose", "state"}

\* the fields declared without a default
RequiredFields == NumericFields \cup CategoricalFields

\* Field bounds that shut the two ends of credit_score out (gt, lt)
FieldInBoundsExclusive(field, value) ==
    CASE field = "credit_score" -> value > 300 /\ value < 850
      [] field = "employment_length" -> value >= 0 /\ value <= 60
      [] field \in NumericFields -> value >= 0
      [] OTHER -> TRUE

\* the Field(..., ge=, le=) constraint of a field
FieldInBounds(field, value) ==
    CASE field = "credit_score" -> value >= 300 /\ value <= 850
      [] field = "employment_length" -> value >= 0 /\ value <= 60
      [] field \in NumericFields -> value >= 0
      [] OTHER -> TRUE

\* the fields of a payload that get an error: out of bounds, or required and missing
\* (a profile stands for the fields a payload does not spell out)
OffendingFields(payload) ==
    {f \in RequiredFields :
        IF f \in DOMAIN payload THEN ~FieldInBounds(f, payload[f])
        ELSE "profile" \notin DOMAIN payload}

\* LoanApplication(**payload) succeeds: no field has an error
LoanApplicationValid(payload) == OffendingFields(payload) = {}

\* str.upper and str.lower on the spellings payloads use
Upper(value) ==
    CASE value \in {"rent", "Rent", "RENT"} -> "RENT"
      [] value \in {"ca", "Ca", "CA"} -> "CA"
      [] OTHER -> value

Lower(value) ==
    CASE value \in {"credit_card", "Credit_Card", "CREDIT_CARD"} -> "credit_card"
      [] OTHER -> value

\* the validated object: numbers stored as given, home_ownership and state upper-cased,
\* purpose lower-cased, application_id None when not given
LoanApplication(payload) ==
    [f \in DOMAIN payload \cup {"application_id"} |->
        IF f \notin DOMAIN payload THEN NoId
        ELSE IF f \in {"home_ownership", "state"} THEN Upper(payload[f])
        ELSE IF f = "purpose" THEN Lower(payload[f])
        ELSE payload[f]]

\* _prepare_dataframe: one row of the feature columns per application
PrepareRow(app) ==
    [credit_score |-> app.credit_score, dti |-> app.dti, profile |-> app.profile]

FeatureRows == {PrepareRow(LoanApplication(p)) : p \in {q \in Payloads : LoanApplicationValid(q)}}

----------------------------------------------------------------------------
(* Risk categorizer *)

CategorizeRiskAlertOnMedium(th, probability) ==
    IF probability < th.low THEN <<"LOW", FALSE>>
    ELSE IF probability < th.medium THEN <<"MEDIUM", TRUE>>
    ELSE <<"HIGH", TRUE>>

CategorizeRiskInclusiveLow(th, probability) ==
    IF probability <= th.low THEN <<"LOW", FALSE>>
    ELSE IF probability < th.medium THEN <<"MEDIUM", FALSE>>
    ELSE <<"HIGH", TRUE>>

\* PredictorService._categorize_risk: (risk_category, alert)
CategorizeRisk(th, probability) ==
    IF probability < th.low THEN <<"LOW", FALSE>>
    ELSE IF probability < th.medium THEN <<"MEDIUM", FALSE>>
    ELSE <<"HIGH", TRUE>>

\* evaluation.categorize_risk: one category per probability of the list
RECURSIVE EvalCategorizeRisk(_, _)
EvalCategorizeRisk(probabilities, th) ==
    IF probabilities = <<>> THEN <<>>
    ELSE LET prob == Head(probabilities)
             cat == IF prob < th.low THEN "LOW"
                    ELSE IF prob < th.medium THEN "MEDIUM"
                    ELSE "HIGH"
         IN  <<cat>> \o EvalCategorizeRisk(Tail(probabilities), th)

----------------------------------------------------------------------------
(* Lending rule engine: services/decision.py *)

\* default risk_threshold 0.20 (hundredths)
DefaultRiskThreshold == 20
\* default dti_threshold 0.45 (ten-thousandths)
DefaultDtiThreshold == 4500

\* a _normalize_dti that takes exactly 1 for a percentage
NormalizeDtiExclusive(value) ==
    IF value < 10000 THEN value ELSE value \div 100

\* _normalize_dti: a value <= 1 is a ratio already, anything else is a percentage
NormalizeDti(value) ==
    IF value <= 10000 THEN value ELSE value \div 100

\* format(value, ".0%") of a value in ten-thousandths: the whole percent nearest to it,
\* a half going to the even one
FormatPercent(value) ==
    LET whole == value \div 100
        rest == value % 100
    IN  IF rest < 50 THEN whole
        ELSE IF rest > 50 THEN whole + 1
        ELSE IF whole % 2 = 0 THEN whole ELSE whole + 1

\* the two sentences of a denial, each with the two numbers it prints
\* (probabilities are in hundredths, ratios in ten-thousandths)
RiskClause(default_risk_score, risk_threshold) ==
    [clause |-> "Default risk score exceeds the lender threshold",
     value |-> FormatPercent(default_risk_score * 100),
     limit |-> FormatPercent(risk_threshold * 100)]
DtiClause(dti_ratio, dti_threshold) ==
    [clause |-> "Debt-to-income ratio is above the allowed maximum",
     value |-> FormatPercent(dti_ratio),
     limit |-> FormatPercent(dti_threshold)]
ApprovalReason == [clause |-> "Risk score and debt-to-income ratio are within acceptable limits"]
FallbackReason == [clause |-> "Application does not meet lending criteria"]

\* evaluate_lending_rules with the two sentences of a denial in the other order
EvaluateLendingRulesDtiFirst(default_risk_score, application, risk_threshold, dti_threshold) ==
    LET dti_ratio == NormalizeDti(application.dti)
        risk_ok == default_risk_score < risk_threshold
        dti_ok == dti_ratio < dti_threshold
        reasons == (IF ~dti_ok THEN <<DtiClause(dti_ratio, dti_threshold)>> ELSE <<>>)
                   \o (IF ~risk_ok THEN <<RiskClause(default_risk_score, risk_threshold)>> ELSE <<>>)
    IN  IF risk_ok /\ dti_ok
        THEN [approved |-> TRUE, decision |-> "Approved", reason |-> <<ApprovalReason>>,
              default_risk_score |-> default_risk_score]
        ELSE [approved |-> FALSE, decision |-> "Denied",
              reason |-> IF reasons # <<>> THEN reasons ELSE <<FallbackReason>>,
              default_risk_score |-> default_risk_score]

EvaluateLendingRulesInclusive(default_risk_score, application, risk_threshold, dti_threshold) ==
    LET dti_ratio == NormalizeDti(application.dti)
        risk_ok == default_risk_score <= risk_threshold
        dti_ok == dti_ratio <= dti_threshold
        reasons == (IF ~risk_ok THEN <<RiskClause(default_risk_score, risk_threshold)>> ELSE <<>>)
                   \o (IF ~dti_ok THEN <<DtiClause(dti_ratio, dti_threshold)>> ELSE <<>>)
    IN  IF risk_ok /\ dti_ok
        THEN [approved |-> TRUE, decision |-> "Approved", reason |-> <<ApprovalReason>>,
              default_risk_score |-> default_risk_score]
        ELSE [approved |-> FALSE, decision |-> "Denied",
              reason |-> IF reasons # <<>> THEN reasons ELSE <<FallbackReason>>,
              default_risk_score |-> default_risk_score]

\* evaluate_lending_rules: the reason is the sequence of its clauses
EvaluateLendingRules(default_risk_score, application, risk_threshold, dti_threshold) ==
    LET dti_ratio == NormalizeDti(application.dti)
        risk_ok == default_risk_score < risk_threshold
        dti_ok == dti_ratio < dti_threshold
        reasons == (IF ~risk_ok THEN <<RiskClause(default_risk_score, risk_threshold)>> ELSE <<>>)
                   \o (IF ~dti_ok THEN <<DtiClause(dti_ratio, dti_threshold)>> ELSE <<>>)
    IN  IF risk_ok /\ dti_ok
        THEN [approved |-> TRUE, decision |-> "Approved", reason |-> <<ApprovalReason>>,
              default_risk_score |-> default_risk_score]
        ELSE [approved |-> FALSE, decision |-> "Denied",
              reason |-> IF reasons # <<>> THEN reasons ELSE <<FallbackReason>>,
              default_risk_score |-> default_risk_score]

----------------------------------------------------------------------------
(* Ledger: db/models.py, db/crud.py, db/base.py *)

\* a primary key that hands the id of the oldest row out again
NextIdReusesFirst(table) ==
    IF table = <<>> THEN 1 ELSE Head(table).id

\* Integer primary key: the next id of a table is one past the largest id it holds
NextId(table) ==
    IF table = <<>> THEN 1
    ELSE 1 + (CHOOSE m \in {table[k].id : k \in DOMAIN table} :
                 \A k \in DOMAIN table : table[k].id <= m)

EmptySession == [flushed |-> <<>>, pending |-> <<>>]

\* crud.log_prediction: the PredictionLog row; the flush sends the INSERT, which assigns
\* the id and created_at (server_default now(), the database clock in whole seconds)
LogPredictionRow(id, application, probability, risk_category, alert) ==
    [id |-> id,
     application_id |-> application.application_id,
     features |-> application,
     probability |-> probability,
     risk_category |-> risk_category,
     alert_triggered |-> IF alert THEN "YES" ELSE "NO",
     created_at |-> clock]

CreateAlertObjectUnlinked(prediction, application, probability) ==
    [prediction_id |-> 0,
     message |-> [application_id |-> application.application_id,
                  prediction_id |-> IF application.application_id = NoId THEN prediction.id ELSE 0,
                  probability |-> probability],
     severity |-> "HIGH"]

\* crud.create_alert: the RiskAlert object tied to its prediction; no id before the flush
CreateAlertObject(prediction, application, probability) ==
    [prediction_id |-> prediction.id,
     message |-> [application_id |-> application.application_id,
                  prediction_id |-> IF application.application_id = NoId THEN prediction.id ELSE 0,
                  probability |-> probability],
     severity |-> "HIGH"]

\* the INSERT of a pending RiskAlert: the table assigns the id and created_at
AlertRow(id, alert) ==
    [id |-> id, prediction_id |-> alert.prediction_id,
     message |-> alert.message, severity |-> alert.severity, created_at |-> clock]

RECURSIVE InsertAlerts(_, _)
InsertAlerts(table, pending) ==
    IF pending = <<>> THEN table
    ELSE InsertAlerts(Append(table, AlertRow(NextId(table), Head(pending))), Tail(pending))

CommitRowsLost(table, flushed) == table

\* a commit that drops a row whose features the table already holds
CommitRowsDeduplicated(table, flushed) ==
    table \o SelectSeq(flushed, LAMBDA row :
                          \A k \in DOMAIN table : table[k].features # row.features)

\* session.commit(): the rows the session flushed become rows of the table
CommitRows(table, flushed) == table \o flushed

----------------------------------------------------------------------------
(* The request in flight *)

Idle ==
    [kind |-> "none", pc |-> "idle", payloads |-> <<>>, apps |-> <<>>, probs |-> <<>>,
     i |-> 0, cur |-> <<>>, results |-> <<>>, stages |-> <<>>, failures |-> <<>>,
     pred0 |-> 0, alert0 |-> 0, invocations |-> 0, ledger0 |-> <<>>]

NoResponse == [status |-> 0, keys |-> {}, items |-> <<>>]

NoFn == [op |-> "none"]

NoLoader == [op |-> "none"]

\* a PredictionResponse that reports the probability as a percentage of 0..100
PredictionResponsePercent(application, probability, risk_category, alert, th) ==
    [application_id |-> application.application_id,
     probability |-> probability * 100,
     risk_category |-> risk_category,
     alert |-> alert,
     thresholds |-> th]

\* PredictionResponse: the fields of the result object
PredictionResponse(application, probability, risk_category, alert, th) ==
    [application_id |-> application.application_id,
     probability |-> probability,
     risk_category |-> risk_category,
     alert |-> alert,
     thresholds |-> th]

\* the keys the /predict and /predict/batch handlers read from result.model_dump()
ResponseKeys ==
    {"application_id", "default_risk_score", "loan_decision", "reason",
     "approved", "risk_category", "alert", "thresholds"}

----------------------------------------------------------------------------
(* Construction *)

\* PredictorService.__post_init__ under a configuration AppConfig accepted or refused
Init ==
    /\ \E pair \in ConfigPairs :
          /\ thresholds = [low |-> pair[1], medium |-> pair[2]]
          /\ service = IF RiskThresholdsValid(pair[1], pair[2]) THEN "up" ELSE "rejected"
    /\ pipeline \in [FeatureRows -> Probs \cup {ScoreRaises}]
    /\ predictions = <<>>
    /\ alerts = <<>>
    /\ session = EmptySession
    /\ call = Idle
    /\ http = NoResponse
    /\ fn = NoFn
    /\ clock = 0
    /\ loader = NoLoader

Ready == service = "up" /\ call.pc \in {"idle", "done"}

----------------------------------------------------------------------------
(* POST /predict: create_app.predict and PredictorService.predict_one *)

\* app.py 34-40: the handler receives a payload and calls predict_one
Predict(payload) ==
    /\ Ready
    /\ Len(predictions) + 1 <= MaxRows
    /\ call' = [Idle EXCEPT !.kind = "one", !.pc = "received", !.payloads = <<payload>>,
                            !.stages = <<"Received">>,
                            !.pred0 = Len(predictions), !.alert0 = Len(alerts),
                            !.ledger0 = <<predictions, alerts>>]
    /\ http' = NoResponse
    /\ UNCHANGED <<service, thresholds, pipeline, predictions, alerts, session, fn, clock, loader>>

PredictOneValidateLogsRejected ==
    /\ call.kind = "one" /\ call.pc = "received"
    /\ LET payload == call.payloads[1] IN
       IF LoanApplicationValid(payload)
       THEN /\ call' = [call EXCEPT !.pc = "validated", !.apps = <<LoanApplication(payload)>>,
                                    !.stages = Append(@, "Validated")]
            /\ UNCHANGED <<http, predictions>>
       ELSE /\ call' = [call EXCEPT !.pc = "done"]
            /\ http' = [status |-> 400, keys |-> {"error"}, items |-> <<>>]
            /\ predictions' = Append(predictions,
                                     LogPredictionRow(NextId(predictions), payload, 0, "LOW", FALSE))
    /\ UNCHANGED <<service, thresholds, pipeline, alerts, session, fn, clock, loader>>

\* predictor.py 112-116: LoanApplication(**payload); a ValidationError reaches the handler: 400
PredictOneValidate ==
    /\ call.kind = "one" /\ call.pc = "received"
    /\ LET payload == call.payloads[1] IN
       IF LoanApplicationValid(payload)
       THEN /\ call' = [call EXCEPT !.pc = "validated", !.apps = <<LoanApplication(payload)>>,
                                    !.stages = Append(@, "Validated")]
            /\ UNCHANGED http
       ELSE /\ call' = [call EXCEPT !.pc = "done"]
            /\ http' = [status |-> 400, keys |-> {"error"}, items |-> <<>>]
    /\ UNCHANGED <<service, thresholds, pipeline, predictions, alerts, session, fn, clock, loader>>

\* predictor.py 118-119: predict_proba on the one row; an exception reaches the handler: 500
PredictOneScore ==
    /\ call.kind = "one" /\ call.pc = "validated"
    /\ LET probability == pipeline[PrepareRow(call.apps[1])] IN
       IF probability = ScoreRaises
       THEN /\ call' = [call EXCEPT !.pc = "done", !.invocations = @ + 1]
            /\ http' = [status |-> 500, keys |-> {"error"}, items |-> <<>>]
       ELSE /\ call' = [call EXCEPT !.pc = "scored", !.probs = <<probability>>, !.i = 1,
                                    !.invocations = @ + 1,
                                    !.stages = Append(@, "Scored")]
            /\ UNCHANGED http
    /\ UNCHANGED <<service, thresholds, pipeline, predictions, alerts, session, fn, clock, loader>>

\* predictor.py 120: risk_category, alert = self._categorize_risk(probability)
PredictOneCategorize ==
    /\ call.kind = "one" /\ call.pc = "scored"
    /\ call' = [call EXCEPT !.pc = "categorized", !.cur = CategorizeRisk(thresholds, call.probs[1]),
                            !.stages = Append(@, "Categorized")]
    /\ UNCHANGED <<service, thresholds, pipeline, predictions, alerts, session, http, fn, clock, loader>>

----------------------------------------------------------------------------
(* PredictorService._log_prediction, inside "with get_session() as session" *)

LedgerRollbackPropagates(outcome) ==
    /\ session' = EmptySession
    /\ call' = [call EXCEPT !.pc = "done", !.failures = Append(@, outcome)]
    /\ UNCHANGED <<predictions, alerts>>

\* db/base.py 70-74 and predictor.py 174-175: rollback, close, re-raise; the exception is
\* logged and swallowed, and _log_prediction returns
LedgerRollback(outcome) ==
    /\ session' = EmptySession
    /\ call' = [call EXCEPT !.pc = "logged", !.failures = Append(@, outcome),
                            !.stages = Append(@, "Logged")]
    /\ UNCHANGED <<predictions, alerts>>

\* predictor.py 161-168 and crud.log_prediction: session.add(log); session.flush().
\* The INSERT may raise: get_session rolls back and re-raises, _log_prediction swallows it.
LogPrediction(ok) ==
    /\ call.pc = "categorized"
    /\ LET application == call.apps[call.i]
           row == LogPredictionRow(NextId(predictions), application, call.probs[call.i],
                                   call.cur[1], call.cur[2])
       IN  IF ok
           THEN /\ session' = [flushed |-> <<row>>, pending |-> <<>>]
                /\ call' = [call EXCEPT !.pc = IF call.cur[2] THEN "log_alert" ELSE "log_commit"]
                /\ UNCHANGED <<predictions, alerts>>
           ELSE LedgerRollback("prediction")
    /\ UNCHANGED <<service, thresholds, pipeline, http, fn, clock, loader>>

\* predictor.py 169-173 and crud.create_alert: session.add(alert), nothing is sent yet
CreateAlert ==
    /\ call.pc = "log_alert"
    /\ session' = [session EXCEPT !.pending =
                      Append(@, CreateAlertObject(session.flushed[1], call.apps[call.i],
                                                  call.probs[call.i]))]
    /\ call' = [call EXCEPT !.pc = "log_commit"]
    /\ UNCHANGED <<service, thresholds, pipeline, predictions, alerts, http, fn, clock, loader>>

\* a commit that keeps the prediction when the alert INSERT raises
SessionCommitKeepsPrediction(outcome) ==
    /\ call.pc = "log_commit"
    /\ outcome = "alert" => session.pending # <<>>
    /\ IF outcome \in {"none", "alert"}
       THEN /\ predictions' = CommitRows(predictions, session.flushed)
            /\ alerts' = IF outcome = "none" THEN InsertAlerts(alerts, session.pending) ELSE alerts
            /\ session' = EmptySession
            /\ call' = [call EXCEPT !.pc = "logged", !.failures = Append(@, outcome),
                                    !.stages = Append(@, "Logged")]
       ELSE LedgerRollback(outcome)
    /\ UNCHANGED <<service, thresholds, pipeline, http, fn, clock, loader>>

\* db/base.py 69-74: session.commit() flushes the pending alert INSERT, then commits;
\* either may raise, and then session.rollback() undoes the whole transaction.
\* outcome: "none" (committed), "alert" (the alert INSERT raised), "commit" (COMMIT raised)
SessionCommit(outcome) ==
    /\ call.pc = "log_commit"
    /\ outcome = "alert" => session.pending # <<>>
    /\ IF outcome = "none"
       THEN /\ predictions' = CommitRows(predictions, session.flushed)
            /\ alerts' = InsertAlerts(alerts, session.pending)
            /\ session' = EmptySession
            /\ call' = [call EXCEPT !.pc = "logged", !.failures = Append(@, "none"),
                                    !.stages = Append(@, "Logged")]
       ELSE LedgerRollback(outcome)
    /\ UNCHANGED <<service, thresholds, pipeline, http, fn, clock, loader>>

----------------------------------------------------------------------------
(* predict_one returns; the /predict handler answers *)

\* predictor.py 124-130: the PredictionResponse of the call
PredictOneReturn ==
    /\ call.kind = "one" /\ call.pc = "logged"
    /\ call' = [call EXCEPT !.pc = "returned",
                            !.results = <<PredictionResponse(call.apps[1], call.probs[1],
                                                             call.cur[1], call.cur[2], thresholds)>>,
                            !.stages = Append(@, "Returned")]
    /\ UNCHANGED <<service, thresholds, pipeline, predictions, alerts, session, http, fn, clock, loader>>

\* app.py 50-61 (and 76-90 per item): data = result.model_dump(); the body reads
\* data[key] for every key of ResponseKeys; a key the result lacks raises KeyError
BodyOf(result) ==
    IF ResponseKeys \subseteq DOMAIN result
    THEN [ok |-> TRUE, keys |-> ResponseKeys, item |-> [k \in ResponseKeys |-> result[k]]]
    ELSE [ok |-> FALSE, keys |-> {}, item |-> result]

\* app.py 50-61: the body is built outside the try block, so a KeyError is an unhandled
\* exception of the view: 500
PredictRespond ==
    /\ call.kind = "one" /\ call.pc = "returned"
    /\ LET body == BodyOf(call.results[1]) IN
       http' = IF body.ok
               THEN [status |-> 200, keys |-> body.keys, items |-> <<body.item>>]
               ELSE [status |-> 500, keys |-> {}, items |-> <<>>]
    /\ call' = [call EXCEPT !.pc = "done"]
    /\ UNCHANGED <<service, thresholds, pipeline, predictions, alerts, session, fn, clock, loader>>

\* app.py 36-38: no JSON payload
PredictMissingJson ==
    /\ Ready
    /\ call' = [Idle EXCEPT !.kind = "one", !.pc = "done",
                            !.pred0 = Len(predictions), !.alert0 = Len(alerts),
                            !.ledger0 = <<predictions, alerts>>]
    /\ http' = [status |-> 400, keys |-> {"error"}, items |-> <<>>]
    /\ UNCHANGED <<service, thresholds, pipeline, predictions, alerts, session, fn, clock, loader>>

----------------------------------------------------------------------------
(* POST /predict/batch: create_app.predict_batch and PredictorService.predict_batch *)

BatchRows == UNION {[1..n -> Payloads] : n \in 1..MaxBatch}

\* app.py 63-69: the handler receives a list and calls predict_batch
PredictBatch(rows) ==
    /\ Ready
    /\ Len(predictions) + Len(rows) <= MaxRows
    /\ call' = [Idle EXCEPT !.kind = "batch", !.pc = "received", !.payloads = rows,
                            !.stages = <<"Received">>,
                            !.pred0 = Len(predictions), !.alert0 = Len(alerts),
                            !.ledger0 = <<predictions, alerts>>]
    /\ http' = NoResponse
    /\ UNCHANGED <<service, thresholds, pipeline, predictions, alerts, session, fn, clock, loader>>

\* app.py 65-67: the JSON body is not a list
PredictBatchNotList ==
    /\ Ready
    /\ call' = [Idle EXCEPT !.kind = "batch", !.pc = "done",
                            !.pred0 = Len(predictions), !.alert0 = Len(alerts),
                            !.ledger0 = <<predictions, alerts>>]
    /\ http' = [status |-> 400, keys |-> {"error"}, items |-> <<>>]
    /\ UNCHANGED <<service, thresholds, pipeline, predictions, alerts, session, fn, clock, loader>>

PredictBatchValidateDropsInvalid ==
    /\ call.kind = "batch" /\ call.pc = "received"
    /\ LET valid == SelectSeq(call.payloads, LoanApplicationValid) IN
       IF valid # <<>>
       THEN /\ call' = [call EXCEPT !.pc = "validated",
                                    !.apps = [k \in DOMAIN valid |-> LoanApplication(valid[k])],
                                    !.stages = Append(@, "Validated")]
            /\ UNCHANGED http
       ELSE /\ call' = [call EXCEPT !.pc = "done"]
            /\ http' = [status |-> 400, keys |-> {"error"}, items |-> <<>>]
    /\ UNCHANGED <<service, thresholds, pipeline, predictions, alerts, session, fn, clock, loader>>

\* predictor.py 133: every row is validated before anything else; the first invalid row
\* raises ValidationError, which the handler answers with 400
PredictBatchValidate ==
    /\ call.kind = "batch" /\ call.pc = "received"
    /\ IF \A k \in DOMAIN call.payloads : LoanApplicationValid(call.payloads[k])
       THEN /\ call' = [call EXCEPT !.pc = "validated",
                                    !.apps = [k \in DOMAIN call.payloads |->
                                                 LoanApplication(call.payloads[k])],
                                    !.stages = Append(@, "Validated")]
            /\ UNCHANGED http
       ELSE /\ call' = [call EXCEPT !.pc = "done"]
            /\ http' = [status |-> 400, keys |-> {"error"}, items |-> <<>>]
    /\ UNCHANGED <<service, thresholds, pipeline, predictions, alerts, session, fn, clock, loader>>

\* predictor.py 134-135: one predict_proba call over all rows
PredictBatchScore ==
    /\ call.kind = "batch" /\ call.pc = "validated"
    /\ LET probabilities == [k \in DOMAIN call.apps |-> pipeline[PrepareRow(call.apps[k])]] IN
       IF \E k \in DOMAIN probabilities : probabilities[k] = ScoreRaises
       THEN /\ call' = [call EXCEPT !.pc = "done", !.invocations = @ + 1]
            /\ http' = [status |-> 500, keys |-> {"error"}, items |-> <<>>]
       ELSE /\ call' = [call EXCEPT !.pc = "scored", !.probs = probabilities, !.i = 1,
                                    !.invocations = @ + 1,
                                    !.stages = Append(@, "Scored")]
            /\ UNCHANGED http
    /\ UNCHANGED <<service, thresholds, pipeline, predictions, alerts, session, fn, clock, loader>>

\* a loop body that categorizes with inclusive bands of its own
PredictBatchCategorizeOwnBands ==
    /\ call.kind = "batch" /\ call.pc = "scored"
    /\ call' = [call EXCEPT !.pc = "categorized",
                            !.cur = CategorizeRiskInclusiveLow(thresholds, call.probs[call.i]),
                            !.stages = Append(@, "Categorized")]
    /\ UNCHANGED <<service, thresholds, pipeline, predictions, alerts, session, http, fn, clock, loader>>

\* predictor.py 138-139: the loop body starts on item i
PredictBatchCategorize ==
    /\ call.kind = "batch" /\ call.pc = "scored"
    /\ call' = [call EXCEPT !.pc = "categorized",
                            !.cur = CategorizeRisk(thresholds, call.probs[call.i]),
                            !.stages = Append(@, "Categorized")]
    /\ UNCHANGED <<service, thresholds, pipeline, predictions, alerts, session, http, fn, clock, loader>>

\* a loop that ends on the first item whose ledger write failed
PredictBatchAppendStopsOnFailure ==
    /\ call.kind = "batch" /\ call.pc = "logged"
    /\ LET more == call.i < Len(call.apps) /\ call.failures[call.i] = "none" IN
       call' = [call EXCEPT !.results = Append(@, PredictionResponse(call.apps[call.i],
                                                      call.probs[call.i], call.cur[1], call.cur[2],
                                                      thresholds)),
                               !.i = IF more THEN call.i + 1 ELSE call.i,
                               !.pc = IF more THEN "scored" ELSE "looped"]
    /\ UNCHANGED <<service, thresholds, pipeline, predictions, alerts, session, http, fn, clock, loader>>

PredictBatchAppendInFront ==
    /\ call.kind = "batch" /\ call.pc = "logged"
    /\ call' = [call EXCEPT !.results = <<PredictionResponse(call.apps[call.i],
                                             call.probs[call.i], call.cur[1], call.cur[2],
                                             thresholds)>> \o @,
                            !.i = IF call.i < Len(call.apps) THEN call.i + 1 ELSE call.i,
                            !.pc = IF call.i < Len(call.apps) THEN "scored" ELSE "looped"]
    /\ UNCHANGED <<service, thresholds, pipeline, predictions, alerts, session, http, fn, clock, loader>>

\* predictor.py 141-149: the item's response is appended and the loop goes on
PredictBatchAppend ==
    /\ call.kind = "batch" /\ call.pc = "logged"
    /\ call' = [call EXCEPT !.results = Append(@, PredictionResponse(call.apps[call.i],
                                                   call.probs[call.i], call.cur[1], call.cur[2],
                                                   thresholds)),
                            !.i = IF call.i < Len(call.apps) THEN call.i + 1 ELSE call.i,
                            !.pc = IF call.i < Len(call.apps) THEN "scored" ELSE "looped"]
    /\ UNCHANGED <<service, thresholds, pipeline, predictions, alerts, session, http, fn, clock, loader>>

\* predictor.py 150: return responses
PredictBatchReturn ==
    /\ call.kind = "batch" /\ call.pc = "looped"
    /\ call' = [call EXCEPT !.pc = "returned", !.stages = Append(@, "Returned")]
    /\ UNCHANGED <<service, thresholds, pipeline, predictions, alerts, session, http, fn, clock, loader>>

\* app.py 76-92: one body per result, built outside the try block
PredictBatchRespond ==
    /\ call.kind = "batch" /\ call.pc = "returned"
    /\ LET bodies == [k \in DOMAIN call.results |-> BodyOf(call.results[k])] IN
       http' = IF \A k \in DOMAIN bodies : bodies[k].ok
               THEN [status |-> 200, keys |-> ResponseKeys,
                     items |-> [k \in DOMAIN bodies |-> bodies[k].item]]
               ELSE [status |-> 500, keys |-> {}, items |-> <<>>]
    /\ call' = [call EXCEPT !.pc = "done"]
    /\ UNCHANGED <<service, thresholds, pipeline, predictions, alerts, session, fn, clock, loader>>

----------------------------------------------------------------------------
(* The service *)

Next ==
    \/ \E payload \in Payloads : Predict(payload)
    \/ PredictMissingJson
    \/ PredictOneValidate
    \/ PredictOneScore
    \/ PredictOneCategorize
    \/ \E ok \in BOOLEAN : LogPrediction(ok)
    \/ CreateAlert
    \/ \E outcome \in {"none", "alert", "commit"} : SessionCommit(outcome)
    \/ PredictOneReturn
    \/ PredictRespond
    \/ \E rows \in BatchRows : PredictBatch(rows)
    \/ PredictBatchNotList
    \/ PredictBatchValidate
    \/ PredictBatchScore
    \/ PredictBatchCategorize
    \/ PredictBatchAppend
    \/ PredictBatchReturn
    \/ PredictBatchRespond

Spec == Init /\ [][Next]_vars

----------------------------------------------------------------------------
(* The pure functions, applied to inputs drawn from bounded sets *)

\* probabilities given to the categorizers and to the rule engine (hundredths)
PureProbs == {0, 10, 19, 20, 21, 29, 30, 31, 59, 60, 61, 100}
\* dti values given to the rule engine (ten-thousandths): ratios up to 1, percentages above
PureDtis == {0, 2000, 4499, 4500, 4501, 10000, 10100, 150000, 449900, 450000, 450100, 1000000}
\* (risk_threshold, dti_threshold) pairs the rule engine is called with: the defaults, and another
RuleThresholds == {<<DefaultRiskThreshold, DefaultDtiThreshold>>, <<30, 10000>>}
\* (low, medium) pairs a RiskThresholds object can hold
PureConfigPairs ==
    {pair \in ConfigPairs \cup {<<20, 60>>, <<5, 10>>, <<10, 20>>} : RiskThresholdsValid(pair[1], pair[2])}

InitPure ==
    /\ service = "off"
    /\ thresholds = [low |-> 0, medium |-> 0]
    /\ pipeline = <<>>
    /\ predictions = <<>>
    /\ alerts = <<>>
    /\ session = EmptySession
    /\ call = Idle
    /\ http = NoResponse
    /\ clock = 0
    /\ loader = NoLoader
    /\ \E p \in PureProbs, q \in {10, 60}, d \in PureDtis, rt \in RuleThresholds,
          pair \in PureConfigPairs :
          fn = [op |-> "input", probability |-> p, probabilities |-> <<p, q>>,
                application |-> [application_id |-> NoId, credit_score |-> 720,
                                 dti |-> d, profile |-> 1],
                risk_threshold |-> rt[1], dti_threshold |-> rt[2],
                th |-> [low |-> pair[1], medium |-> pair[2]],
                out |-> <<>>]

\* PredictorService._categorize_risk and evaluation.categorize_risk on the same thresholds
ApplyCategorizeRisk ==
    /\ fn.op = "input"
    /\ fn' = [fn EXCEPT !.op = "categorize",
                        !.out = [service |-> CategorizeRisk(fn.th, fn.probability),
                                 evaluation |-> EvalCategorizeRisk(fn.probabilities, fn.th)]]
    /\ UNCHANGED <<service, thresholds, pipeline, predictions, alerts, session, call, http, clock, loader>>

\* evaluate_lending_rules(default_risk_score, application, risk_threshold, dti_threshold)
ApplyEvaluateLendingRules ==
    /\ fn.op = "input"
    /\ fn' = [fn EXCEPT !.op = "decide",
                        !.out = EvaluateLendingRules(fn.probability, fn.application,
                                                     fn.risk_threshold, fn.dti_threshold)]
    /\ UNCHANGED <<service, thresholds, pipeline, predictions, alerts, session, call, http, clock, loader>>

\* evaluate_lending_rules on an application whose dti is a percentage (above 1, at most
\* 100) and on the same application with the dti written as the ratio dti / 100
ApplyEvaluateLendingRulesBothForms ==
    /\ fn.op = "input"
    /\ fn.application.dti > 10000 /\ fn.application.dti <= 1000000
    /\ fn.application.dti % 100 = 0
    /\ LET percentage == fn.application
           ratio == [fn.application EXCEPT !.dti = fn.application.dti \div 100]
       IN  fn' = [fn EXCEPT !.op = "forms",
                            !.out = [normalized |-> <<NormalizeDti(percentage.dti),
                                                      NormalizeDti(ratio.dti)>>,
                                     percentage |-> EvaluateLendingRules(fn.probability, percentage,
                                                        fn.risk_threshold, fn.dti_threshold),
                                     ratio |-> EvaluateLendingRules(fn.probability, ratio,
                                                   fn.risk_threshold, fn.dti_threshold)]]
    /\ UNCHANGED <<service, thresholds, pipeline, predictions, alerts, session, call, http, clock, loader>>

\* _categorize_risk under the configured thresholds and evaluate_lending_rules with its
\* default thresholds, on the same probability
ApplyCategorizeAndDecide ==
    /\ fn.op = "input"
    /\ fn' = [fn EXCEPT !.op = "both",
                        !.out = [category |-> CategorizeRisk(fn.th, fn.probability),
                                 decision |-> EvaluateLendingRules(fn.probability, fn.application,
                                                  DefaultRiskThreshold, DefaultDtiThreshold)]]
    /\ UNCHANGED <<service, thresholds, pipeline, predictions, alerts, session, call, http, clock, loader>>

NextPure ==
    \/ ApplyCategorizeRisk
    \/ ApplyEvaluateLendingRules
    \/ ApplyEvaluateLendingRulesBothForms
    \/ ApplyCategorizeAndDecide

SpecPure == InitPure /\ [][NextPure]_vars

----------------------------------------------------------------------------
(* Properties *)

InBand(category, p, th) ==
    /\ category \in {"LOW", "MEDIUM", "HIGH"}
    /\ category = "LOW" <=> p < th.low
    /\ category = "MEDIUM" <=> (th.low <= p /\ p < th.medium)
    /\ category = "HIGH" <=> p >= th.medium

\* C1: for every probability p and threshold pair, the category is LOW iff p < low,
\* MEDIUM iff low <= p < medium, HIGH iff p >= medium, for _categorize_risk and for
\* evaluation.categorize_risk alike, and the two agree on the same input.
C1_CategoryBands ==
    fn.op = "categorize" =>
        /\ InBand(fn.out.service[1], fn.probability, fn.th)
        /\ Len(fn.out.evaluation) = Len(fn.probabilities)
        /\ \A k \in DOMAIN fn.probabilities :
              InBand(fn.out.evaluation[k], fn.probabilities[k], fn.th)
        /\ fn.out.evaluation[1] = fn.out.service[1]

\* a probability exactly on the low threshold, below the medium one, came out MEDIUM
C1_Witness ==
    /\ fn.op = "categorize"
    /\ fn.probability = fn.th.low /\ fn.th.low < fn.th.medium
    /\ fn.out.service[1] = "MEDIUM" /\ fn.out.evaluation[1] = "MEDIUM"

\* C2: in every result of predict_one or predict_batch, alert is true iff risk_category
\* is HIGH.
C2_AlertIffHigh ==
    \A k \in DOMAIN call.results :
        call.results[k].alert <=> call.results[k].risk_category = "HIGH"

\* a batch returned one result with an alert and one without
C2_Witness ==
    /\ call.kind = "batch" /\ call.pc = "returned"
    /\ \E j, k \in DOMAIN call.results :
          /\ call.results[j].alert /\ call.results[j].risk_category = "HIGH"
          /\ ~call.results[k].alert /\ call.results[k].risk_category = "MEDIUM"

\* C3: evaluate_lending_rules approves iff probability < risk_threshold and normalized
\* DTI < dti_threshold, both strict; the decision string is "Approved" exactly when
\* approved, "Denied" otherwise.
C3_ApproveIffBothStrictlyBelow ==
    fn.op = "decide" =>
        /\ fn.out.approved <=> (/\ fn.probability < fn.risk_threshold
                                /\ NormalizeDti(fn.application.dti) < fn.dti_threshold)
        /\ fn.out.decision = (IF fn.out.approved THEN "Approved" ELSE "Denied")

\* a probability exactly on the risk threshold, with a DTI well below its own, was denied
C3_Witness ==
    /\ fn.op = "decide"
    /\ fn.probability = fn.risk_threshold
    /\ NormalizeDti(fn.application.dti) < fn.dti_threshold
    /\ ~fn.out.approved /\ fn.out.decision = "Denied"

\* predict_one (or predict_batch) has returned its result to the handler
Returned == call.pc \in {"returned", "done"} /\ call.results # <<>>

\* a finished /predict or /predict/batch request whose payloads were all valid and scored
ValidRequestDone == call.pc = "done" /\ call.probs # <<>>

\* every ledger write of the call so far went through
WorkingLedger == \A k \in DOMAIN call.failures : call.failures[k] = "none"

\* C4: every successful predict_one passes through Received, Validated, Scored,
\* Categorized, Decided, Logged, Returned in that order, no stage skipped.
C4_StagesInOrder ==
    (call.kind = "one" /\ Returned) =>
        call.stages = <<"Received", "Validated", "Scored", "Categorized", "Decided",
                        "Logged", "Returned">>

\* C5: for every valid application, score-one succeeds with a result carrying
\* application_id, default_risk_score, loan_decision, reason, approved, risk_category,
\* alert and thresholds, the decision fields being the rule engine's output for the
\* call's probability and application.
C5_ScoreOneCarriesDecision ==
    (call.kind = "one" /\ ValidRequestDone) =>
        /\ ResponseKeys \subseteq DOMAIN call.results[1]
        /\ http.status = 200
        /\ http.keys = ResponseKeys
        /\ LET decision == EvaluateLendingRules(call.probs[1], call.apps[1],
                                                DefaultRiskThreshold, DefaultDtiThreshold)
               body == http.items[1]
           IN  /\ body["default_risk_score"] = call.probs[1]
               /\ body["loan_decision"] = decision.decision
               /\ body["reason"] = decision.reason
               /\ body["approved"] = decision.approved

\* C6: for every valid payload POST /predict answers 200 with a body whose keys include
\* probability, risk_category and alert; POST /predict/batch with n valid payloads
\* answers 200 with a list of n such items.
C6_EndpointsAnswer200 ==
    ValidRequestDone =>
        /\ http.status = 200
        /\ {"probability", "risk_category", "alert"} \subseteq http.keys
        /\ Len(http.items) = Len(call.payloads)

\* C7: with a working ledger a successful predict_one adds exactly 1 prediction entry
\* and a successful predict_batch of n items adds exactly n.
C7_OneEntryPerScoringCall ==
    (Returned /\ WorkingLedger) =>
        /\ Len(predictions) = call.pred0 + Len(call.payloads)
        /\ call.kind = "one" => Len(call.payloads) = 1

\* a batch of two, served over a ledger that was empty, left two entries
C7_Witness ==
    /\ call.kind = "batch" /\ Returned /\ WorkingLedger
    /\ Len(call.payloads) = 2 /\ Len(predictions) = call.pred0 + 2

\* the alert entries the call created
NewAlerts == {k \in DOMAIN alerts : k > call.alert0}

\* C8: with a working ledger a scoring call whose category is HIGH creates exactly one
\* alert entry, whose prediction_id is the id of the prediction entry that call created;
\* a LOW or MEDIUM call creates none.
C8_OneAlertPerHighCall ==
    (Returned /\ WorkingLedger) =>
        /\ Len(predictions) = call.pred0 + Len(call.results)
        /\ \A k \in DOMAIN call.results :
              LET entry == predictions[call.pred0 + k]
                  mine == {a \in NewAlerts : alerts[a].prediction_id = entry.id}
              IN  /\ entry.probability = call.results[k].probability
                  /\ Cardinality(mine) = IF call.results[k].risk_category = "HIGH" THEN 1 ELSE 0
        /\ Cardinality(NewAlerts) =
              Cardinality({k \in DOMAIN call.results : call.results[k].risk_category = "HIGH"})

\* a HIGH call, served over a ledger that already held an entry, created its alert
C8_Witness ==
    /\ call.kind = "one" /\ Returned /\ WorkingLedger
    /\ call.pred0 = 1
    /\ call.results[1].risk_category = "HIGH"
    /\ Len(alerts) = call.alert0 + 1
    /\ alerts[Len(alerts)].prediction_id = predictions[Len(predictions)].id

\* C9: when the alert insertion fails after the prediction insertion succeeded, the
\* prediction entry is still persisted and visible to recent_predictions.
C9_AlertFailureKeepsPrediction ==
    Len(predictions) =
        call.pred0 + Cardinality({k \in DOMAIN call.failures : call.failures[k] \in {"none", "alert"}})

\* C10: a ledger write failure (prediction insert, alert insert or commit) never
\* propagates out of predict_one or predict_batch: the call returns, with the
\* probability, risk_category and alert it would have returned had the write succeeded.
C10_LedgerFailureSwallowed ==
    ~WorkingLedger =>
        /\ call.pc = "done" => Returned
        /\ Returned =>
              /\ Len(call.results) = Len(call.payloads)
              /\ \A k \in DOMAIN call.results :
                    LET probability == pipeline[PrepareRow(call.apps[k])] IN
                    /\ call.results[k].probability = probability
                    /\ call.results[k].risk_category = CategorizeRisk(thresholds, probability)[1]
                    /\ call.results[k].alert = CategorizeRisk(thresholds, probability)[2]

\* a batch returned both results although each kind of ledger write failed on the way
C10_Witness ==
    /\ call.kind = "batch" /\ Returned /\ Len(call.results) = 2
    /\ \E j, k \in DOMAIN call.failures :
          call.failures[j] = "prediction" /\ call.failures[k] \in {"alert", "commit"}

\* a finished predict_one that raised before it reached _log_prediction
FailedBeforeLogged ==
    call.kind = "one" /\ call.pc = "done" /\ call.payloads # <<>> /\ call.results = <<>>

\* C11: a predict_one that fails before the Logged stage (validation failure, or the
\* scoring function raising) returns an error and leaves the ledger unchanged: no
\* prediction entry, no alert entry; when validation fails the scoring function is not
\* invoked at all.
C11_EarlyFailureLeavesLedger ==
    /\ (call.kind = "one" /\ call.pc \in {"received", "validated"}) =>
          <<predictions, alerts>> = call.ledger0
    /\ FailedBeforeLogged =>
          /\ http.status \in {400, 500} /\ "error" \in http.keys
          /\ <<predictions, alerts>> = call.ledger0
          /\ session = EmptySession
          /\ ~LoanApplicationValid(call.payloads[1]) =>
                (http.status = 400 /\ call.invocations = 0)
          /\ LoanApplicationValid(call.payloads[1]) =>
                (http.status = 500 /\ call.invocations = 1)

\* an invalid payload was refused over a ledger that already held a prediction and an alert
C11_Witness ==
    /\ FailedBeforeLogged
    /\ ~LoanApplicationValid(call.payloads[1])
    /\ http.status = 400 /\ call.invocations = 0
    /\ Len(predictions) = 1 /\ Len(alerts) = 1

\* a batch request that carries at least one invalid row
BatchWithInvalidRow ==
    /\ call.kind = "batch" /\ call.payloads # <<>>
    /\ \E k \in DOMAIN call.payloads : ~LoanApplicationValid(call.payloads[k])

\* C12: predict_batch is all-or-nothing on validation: with any invalid item the call
\* fails with a validation error, the scoring function is invoked for no item, no result
\* is returned and no ledger entry is written, the valid items before the invalid one
\* included.
C12_BatchAllOrNothing ==
    BatchWithInvalidRow =>
        /\ call.pc \in {"received", "done"}
        /\ call.invocations = 0
        /\ call.apps = <<>> /\ call.probs = <<>> /\ call.results = <<>>
        /\ <<predictions, alerts>> = call.ledger0
        /\ session = EmptySession
        /\ call.pc = "done" => (http.status = 400 /\ http.items = <<>>)

\* a batch whose first row is valid and whose second is not was refused as a whole
C12_Witness ==
    /\ call.kind = "batch" /\ call.pc = "done" /\ Len(call.payloads) = 2
    /\ LoanApplicationValid(call.payloads[1]) /\ ~LoanApplicationValid(call.payloads[2])
    /\ http.status = 400 /\ call.results = <<>> /\ predictions = <<>>

\* C13: for every list of n valid payloads predict_batch returns exactly n results, the
\* i-th being the result for the i-th input (its application_id, the probability of its
\* row), and the ledger entries it writes are created in input order.
C13_BatchKeepsInputOrder ==
    (call.kind = "batch" /\ Returned) =>
        /\ Len(call.results) = Len(call.payloads)
        /\ \A k \in DOMAIN call.results :
              /\ call.results[k].application_id = call.payloads[k].application_id
              /\ call.results[k].probability =
                    pipeline[PrepareRow(LoanApplication(call.payloads[k]))]
        /\ WorkingLedger =>
              /\ Len(predictions) = call.pred0 + Len(call.payloads)
              /\ \A k \in DOMAIN call.payloads :
                    LET entry == predictions[call.pred0 + k] IN
                    /\ entry.application_id = call.payloads[k].application_id
                    /\ entry.features = LoanApplication(call.payloads[k])
                    /\ entry.probability = call.results[k].probability
                    /\ k > 1 => predictions[call.pred0 + k - 1].id < entry.id

\* a batch of two rows that differ in application_id and in probability came back in order
C13_Witness ==
    /\ call.kind = "batch" /\ Returned /\ WorkingLedger /\ Len(call.results) = 2
    /\ call.payloads[1].application_id # call.payloads[2].application_id
    /\ call.results[1].probability # call.results[2].probability
    /\ call.results[1].application_id = call.payloads[1].application_id
    /\ predictions[call.pred0 + 2].application_id = call.payloads[2].application_id

----------------------------------------------------------------------------
(* Loading the scoring function: get_predictor_service and _load_pipeline_cached, both *)
(* wrapped in functools.lru_cache(maxsize=1), asked by several threads.  lru_cache     *)
(* looks the key up, calls the wrapped function outside any lock on a miss, and then   *)
(* stores the value unless the key has been stored meanwhile.                          *)

\* threads that ask for the predictor service
NumCallers == 3
Callers == 1..NumCallers

NoObject == [id |-> 0, pipeline |-> 0]

InitLoad ==
    /\ service = "off"
    /\ thresholds = [low |-> 0, medium |-> 0]
    /\ pipeline = <<>>
    /\ predictions = <<>>
    /\ alerts = <<>>
    /\ session = EmptySession
    /\ call = Idle
    /\ http = NoResponse
    /\ fn = NoFn
    /\ clock = 0
    /\ \E entry \in [Callers -> {"start", "create"}] :
          loader = [op |-> "load",
                    pc |-> entry,
                    pipe |-> [t \in Callers |-> 0],
                    got |-> [t \in Callers |-> NoObject],
                    pipeline_cache |-> 0,
                    service_cache |-> NoObject,
                    loads |-> 0]

\* predictor.py 178-180: the lru_cache lookup of get_predictor_service()
GetPredictorService(t) ==
    /\ loader.op = "load" /\ loader.pc[t] = "start"
    /\ loader' = IF loader.service_cache # NoObject
                 THEN [loader EXCEPT !.pc[t] = "done", !.got[t] = loader.service_cache]
                 ELSE [loader EXCEPT !.pc[t] = "create"]
    /\ UNCHANGED <<service, thresholds, pipeline, predictions, alerts, session, call, http, fn, clock>>

\* predictor.py 66-68, 80-82, 74-76: __post_init__ calls _load_pipeline, which looks
\* model_path up in the lru_cache of _load_pipeline_cached
LoadPipelineCached(t) ==
    /\ loader.op = "load" /\ loader.pc[t] = "create"
    /\ loader' = IF loader.pipeline_cache # 0
                 THEN [loader EXCEPT !.pc[t] = "built", !.pipe[t] = loader.pipeline_cache]
                 ELSE [loader EXCEPT !.pc[t] = "loading"]
    /\ UNCHANGED <<service, thresholds, pipeline, predictions, alerts, session, call, http, fn, clock>>

\* predictor.py 77-78: joblib.load(model_path) reads the artifact and builds a new object
JoblibLoad(t) ==
    /\ loader.op = "load" /\ loader.pc[t] = "loading"
    /\ loader' = [loader EXCEPT !.pc[t] = "loaded", !.loads = @ + 1, !.pipe[t] = loader.loads + 1]
    /\ UNCHANGED <<service, thresholds, pipeline, predictions, alerts, session, call, http, fn, clock>>

\* predictor.py 75: lru_cache stores the loaded object unless the key is cached by now;
\* the caller keeps the object its own call returned
CachePipeline(t) ==
    /\ loader.op = "load" /\ loader.pc[t] = "loaded"
    /\ loader' = [loader EXCEPT !.pc[t] = "built",
                                !.pipeline_cache = IF @ = 0 THEN loader.pipe[t] ELSE @]
    /\ UNCHANGED <<service, thresholds, pipeline, predictions, alerts, session, call, http, fn, clock>>

\* predictor.py 69-72, 85-88, 178-180: the service object is complete; a caller that came
\* through get_predictor_service has it stored by lru_cache unless one is stored by now
CacheService(t) ==
    /\ loader.op = "load" /\ loader.pc[t] = "built"
    /\ LET made == [id |-> t, pipeline |-> loader.pipe[t]] IN
       loader' = [loader EXCEPT !.pc[t] = "done", !.got[t] = made,
                                !.service_cache = IF @ = NoObject THEN made ELSE @]
    /\ UNCHANGED <<service, thresholds, pipeline, predictions, alerts, session, call, http, fn, clock>>

NextLoad ==
    \E t \in Callers :
        \/ GetPredictorService(t)
        \/ LoadPipelineCached(t)
        \/ JoblibLoad(t)
        \/ CachePipeline(t)
        \/ CacheService(t)

SpecLoad == InitLoad /\ [][NextLoad]_vars

\* C14: the scoring-function artifact is loaded at most once per process, also when
\* several callers construct or first request the service concurrently: in every
\* interleaving joblib.load runs exactly once and all callers share the loaded object.
C14_LoadedExactlyOnce ==
    loader.op = "load" =>
        /\ loader.loads <= 1
        /\ \A t, u \in Callers :
              (loader.pc[t] = "done" /\ loader.pc[u] = "done") =>
                  (loader.loads = 1 /\ loader.got[t].pipeline = loader.got[u].pipeline)

----------------------------------------------------------------------------
(* Thresholds *)

\* 0 <= low <= medium <= 1, in hundredths
ThresholdsOrdered(th) == 0 <= th.low /\ th.low <= th.medium /\ th.medium <= 100

\* C15: the thresholds a service operates under satisfy 0 <= low <= medium <= 1; a
\* configuration with medium < low or a value outside [0,1] is rejected, so no service
\* exists and nothing is scored or logged under it; every result echoes exactly the
\* pair its category was computed with.
C15_ThresholdsOrdered ==
    /\ service = "up" => ThresholdsOrdered(thresholds)
    /\ service = "rejected" =>
          /\ ~ThresholdsOrdered(thresholds)
          /\ call = Idle /\ http = NoResponse
          /\ predictions = <<>> /\ alerts = <<>>
    /\ \A k \in DOMAIN call.results :
          /\ call.results[k].thresholds = thresholds
          /\ ThresholdsOrdered(call.results[k].thresholds)
          /\ call.results[k].risk_category =
                CategorizeRisk(call.results[k].thresholds, call.results[k].probability)[1]

\* a batch returned a LOW and a HIGH result, both echoing the configured pair 0.30, 0.60
C15_Witness ==
    /\ service = "up" /\ call.kind = "batch" /\ call.pc = "returned"
    /\ thresholds = [low |-> 30, medium |-> 60]
    /\ \E j, k \in DOMAIN call.results :
          /\ call.results[j].risk_category = "LOW" /\ call.results[k].risk_category = "HIGH"
          /\ call.results[j].thresholds = thresholds /\ call.results[k].thresholds = thresholds

\* C16 as stated: every result of predict_one has thresholds.low < thresholds.medium
\* strictly, probability in [0,1] and risk_category in {LOW, MEDIUM, HIGH}, for every
\* configuration the service accepts.
C16_StrictThresholds ==
    (call.kind = "one" /\ Returned) =>
        /\ call.results[1].thresholds.low < call.results[1].thresholds.medium
        /\ 0 <= call.results[1].probability /\ call.results[1].probability <= 100
        /\ call.results[1].risk_category \in {"LOW", "MEDIUM", "HIGH"}

\* C16 amended: every result of predict_one has thresholds.low <= thresholds.medium
\* (equal thresholds are an accepted configuration), probability in [0,1] and
\* risk_category in {LOW, MEDIUM, HIGH}.
C16_ResultWellFormed ==
    (call.kind = "one" /\ Returned) =>
        /\ call.results[1].thresholds.low <= call.results[1].thresholds.medium
        /\ 0 <= call.results[1].probability /\ call.results[1].probability <= 100
        /\ call.results[1].risk_category \in {"LOW", "MEDIUM", "HIGH"}

\* predict_one returned a result under the accepted configuration low = medium = 0.30
C16_Witness ==
    /\ call.kind = "one" /\ Returned
    /\ call.results[1].thresholds.low = call.results[1].thresholds.medium
    /\ call.results[1].probability = 30 /\ call.results[1].risk_category = "HIGH"

----------------------------------------------------------------------------
(* GET /predictions and GET /alerts: create_app.list_predictions, list_alerts *)

\* the database clock may advance this many seconds
MaxClock == 1

\* the limits a reader asks for
Limits == 0..MaxRows

Min(a, b) == IF a <= b THEN a ELSE b

\* models.py: created_at is CURRENT_TIMESTAMP of the INSERT; a second passes
Tick ==
    /\ clock < MaxClock
    /\ clock' = clock + 1
    /\ UNCHANGED <<service, thresholds, pipeline, predictions, alerts, session, call, http, fn, loader>>

\* ORDER BY created_at DESC LIMIT limit: the first rows of any arrangement of the table
\* in which created_at never increases; rows with equal created_at come in any order,
\* the query names no second key
OrderByCreatedAtDesc(table, limit) ==
    {SubSeq([k \in DOMAIN table |-> table[order[k]]], 1, Min(limit, Len(table))) :
        order \in {o \in Permutations(DOMAIN table) :
                      \A j, k \in DOMAIN table :
                          j < k => table[o[j]].created_at >= table[o[k]].created_at}}

\* crud.get_recent_predictions
GetRecentPredictions(limit) == OrderByCreatedAtDesc(predictions, limit)

\* crud.get_recent_alerts
GetRecentAlerts(limit) == OrderByCreatedAtDesc(alerts, limit)

\* app.py 99-109: the fields of a prediction the body carries
PredictionItem(record) ==
    [id |-> record.id, created_at |-> record.created_at,
     application_id |-> record.application_id, probability |-> record.probability,
     risk_category |-> record.risk_category, alert_triggered |-> record.alert_triggered]

\* app.py 117-126: the fields of an alert the body carries
AlertItem(record) ==
    [id |-> record.id, created_at |-> record.created_at,
     prediction_id |-> record.prediction_id, message |-> record.message,
     severity |-> record.severity]

\* app.py 94-110: GET /predictions?limit=
ListPredictions(limit) ==
    /\ Ready
    /\ \E records \in GetRecentPredictions(limit) :
          http' = [status |-> 200, keys |-> {"id", "created_at", "application_id", "probability",
                                                  "risk_category", "alert_triggered"},
                   items |-> [k \in DOMAIN records |-> PredictionItem(records[k])]]
    /\ call' = [Idle EXCEPT !.kind = "predictions", !.pc = "done", !.i = limit]
    /\ UNCHANGED <<service, thresholds, pipeline, predictions, alerts, session, fn, clock, loader>>

\* app.py 112-127: GET /alerts?limit=
ListAlerts(limit) ==
    /\ Ready
    /\ \E records \in GetRecentAlerts(limit) :
          http' = [status |-> 200, keys |-> {"id", "created_at", "prediction_id", "message", "severity"},
                   items |-> [k \in DOMAIN records |-> AlertItem(records[k])]]
    /\ call' = [Idle EXCEPT !.kind = "alerts", !.pc = "done", !.i = limit]
    /\ UNCHANGED <<service, thresholds, pipeline, predictions, alerts, session, fn, clock, loader>>

\* a service under thresholds 0.30, 0.60 whose scoring function gives 0.10 to one
\* profile and 0.90 to the other
InitLedger ==
    /\ service = "up"
    /\ thresholds = [low |-> 30, medium |-> 60]
    /\ pipeline = [row \in FeatureRows |-> IF row.profile = 1 THEN 10 ELSE 90]
    /\ predictions = <<>>
    /\ alerts = <<>>
    /\ session = EmptySession
    /\ call = Idle
    /\ http = NoResponse
    /\ fn = NoFn
    /\ clock = 0
    /\ loader = NoLoader

NextReads ==
    \/ \E limit \in Limits : ListPredictions(limit)
    \/ \E limit \in Limits : ListAlerts(limit)
    \/ Tick

\* every endpoint of the application, and the database clock
SpecLedger == InitLedger /\ [][Next \/ NextReads]_vars

\* POST /predict, one call after the other, and the two readers
NextRecent ==
    \/ \E payload \in Payloads : Predict(payload)
    \/ PredictOneValidate
    \/ PredictOneScore
    \/ PredictOneCategorize
    \/ \E ok \in BOOLEAN : LogPrediction(ok)
    \/ CreateAlert
    \/ \E outcome \in {"none", "alert", "commit"} : SessionCommit(outcome)
    \/ PredictOneReturn
    \/ PredictRespond
    \/ NextReads

SpecRecent == InitLedger /\ [][NextRecent]_vars

\* table grew at its end only, and no two of its rows share an id
AppendedTo(old, new) ==
    /\ Len(new) >= Len(old)
    /\ SubSeq(new, 1, Len(old)) = old
    /\ \A j, k \in DOMAIN new : j # k => new[j].id # new[k].id

\* C17: no step of predict_one, predict_batch, recent_predictions or recent_alerts, and
\* no failed or rolled-back ledger write, changes or removes a committed prediction or
\* alert entry; an inserted entry never carries the id of an existing one.
C17_LedgerAppendOnly ==
    [][AppendedTo(predictions, predictions') /\ AppendedTo(alerts, alerts')]_vars

\* with a prediction and its alert committed, the next call's ledger write was rolled
\* back and the committed entries are what they were when the call began
C17_Witness ==
    /\ call.kind = "one" /\ call.pc = "logged"
    /\ \E k \in DOMAIN call.failures : call.failures[k] \in {"alert", "commit"}
    /\ predictions # <<>> /\ alerts # <<>>
    /\ call.ledger0 = <<predictions, alerts>>

\* the last rows of table, newest first, at most limit of them
NewestFirst(table, limit) ==
    [k \in 1..Min(limit, Len(table)) |-> table[Len(table) - k + 1]]

\* C18: recent_predictions(limit) and recent_alerts(limit) return at most limit entries,
\* newest first: of two entries recorded by calls of which one completed before the other
\* began, the later-recorded one comes first, and when more than limit entries exist the
\* ones returned are the limit most recently recorded.
C18_RecentNewestFirst ==
    /\ (call.kind = "predictions" /\ call.pc = "done") =>
          /\ Len(http.items) <= call.i
          /\ http.items = [k \in 1..Min(call.i, Len(predictions)) |->
                              PredictionItem(NewestFirst(predictions, call.i)[k])]
    /\ (call.kind = "alerts" /\ call.pc = "done") =>
          /\ Len(http.items) <= call.i
          /\ http.items = [k \in 1..Min(call.i, Len(alerts)) |->
                              AlertItem(NewestFirst(alerts, call.i)[k])]

C20_PercentageAndRatioAgree ==
    fn.op = "forms" =>
        /\ fn.out.normalized[1] = fn.out.normalized[2]
        /\ fn.out.percentage.approved = fn.out.ratio.approved
        /\ fn.out.percentage.decision = fn.out.ratio.decision
        /\ fn.out.percentage.reason = fn.out.ratio.reason
        /\ fn.application.dti = 450000 => fn.out.normalized = <<4500, 4500>>

\* dti = 45 and dti = 0.45 were both denied under the default thresholds, for the ratio
\* 0.45 that is not below 0.45
C20_Witness ==
    /\ fn.op = "forms" /\ fn.application.dti = 450000
    /\ fn.probability < fn.risk_threshold /\ fn.dti_threshold = DefaultDtiThreshold
    /\ fn.out.normalized = <<4500, 4500>>
    /\ ~fn.out.percentage.approved /\ ~fn.out.ratio.approved
    /\ fn.out.ratio.reason = <<DtiClause(4500, DefaultDtiThreshold)>>

----------------------------------------------------------------------------
(* Reasons of the rule engine *)

\* the reason holds the sentence of that name
Mentions(reason, sentence) == \E k \in DOMAIN reason : reason[k].clause = sentence.clause

\* C21: on every denial the reason holds the risk clause iff probability >= risk_threshold
\* and the DTI clause iff normalized DTI >= dti_threshold, the risk clause first when
\* both apply; the fallback reason comes only when neither applies, the approval reason
\* only on approval.
C21_ReasonNamesWhatFailed ==
    fn.op = "decide" =>
        LET reason == fn.out.reason
            dti_ratio == NormalizeDti(fn.application.dti)
            risk == RiskClause(fn.probability, fn.risk_threshold)
            dti == DtiClause(dti_ratio, fn.dti_threshold)
        IN  /\ ~fn.out.approved =>
                  /\ Mentions(reason, risk) <=> fn.probability >= fn.risk_threshold
                  /\ Mentions(reason, dti) <=> dti_ratio >= fn.dti_threshold
                  /\ (Mentions(reason, risk) /\ Mentions(reason, dti)) => reason = <<risk, dti>>
            /\ Mentions(reason, FallbackReason) =>
                  ~(fn.probability >= fn.risk_threshold) /\ ~(dti_ratio >= fn.dti_threshold)
            /\ Mentions(reason, ApprovalReason) => fn.out.approved
            /\ fn.out.approved => reason = <<ApprovalReason>>

\* a denial for both causes: risk clause, then DTI clause
C21_Witness ==
    /\ fn.op = "decide" /\ ~fn.out.approved
    /\ fn.probability > fn.risk_threshold
    /\ NormalizeDti(fn.application.dti) > fn.dti_threshold
    /\ Len(fn.out.reason) = 2
    /\ fn.out.reason[1].clause = RiskClause(0, 0).clause
    /\ fn.out.reason[2].clause = DtiClause(0, 0).clause

----------------------------------------------------------------------------
(* The LoanApplication constructor on payloads that spell every field out *)

\* a payload within every bound
BasePayload ==
    [application_id |-> "APP-1", loan_amount |-> 1000, interest_rate |-> 5,
     annual_income |-> 50000, credit_score |-> 720, employment_length |-> 5,
     dti |-> 150000, num_delinquencies |-> 0, previous_defaults |-> 0,
     home_ownership |-> "rent", purpose |-> "Credit_Card", state |-> "ca"]

\* the values tried for a field: below, on and above each of its bounds
FieldValues(field) ==
    CASE field = "credit_score" -> {299, 300, 720, 850, 851}
      [] field = "employment_length" -> {-1, 0, 5, 60, 61}
      [] field \in NumericFields -> {-1, 0, BasePayload[field]}
      [] field = "home_ownership" -> {"rent", "RENT"}
      [] field = "purpose" -> {"Credit_Card", "credit_card"}
      [] field = "state" -> {"ca", "CA"}
      [] OTHER -> {BasePayload[field]}

Without(payload, field) == [f \in DOMAIN payload \ {field} |-> payload[f]]

Changed(payloads) ==
    UNION {UNION {{[q EXCEPT ![f] = v] : v \in FieldValues(f)} : f \in RequiredFields} :
              q \in payloads}

\* the base payload with up to two fields changed and up to one field left out
ValidationPayloads ==
    LET changed == Changed(Changed({BasePayload}))
    IN  changed \cup {Without(q, f) : q \in changed, f \in DOMAIN BasePayload}

InitValidate ==
    /\ service = "off"
    /\ thresholds = [low |-> 0, medium |-> 0]
    /\ pipeline = <<>>
    /\ predictions = <<>>
    /\ alerts = <<>>
    /\ session = EmptySession
    /\ call = Idle
    /\ http = NoResponse
    /\ clock = 0
    /\ loader = NoLoader
    /\ \E payload \in ValidationPayloads : fn = [op |-> "payload", payload |-> payload, out |-> <<>>]

\* predictor.py 112-116: LoanApplication(**payload) returns the object or raises a
\* ValidationError with one entry per offending field
ApplyLoanApplication ==
    /\ fn.op = "payload"
    /\ fn' = [fn EXCEPT !.op = "validate",
                        !.out = IF LoanApplicationValid(fn.payload)
                                THEN [ok |-> TRUE, errors |-> {},
                                      object |-> LoanApplication(fn.payload)]
                                ELSE [ok |-> FALSE, errors |-> OffendingFields(fn.payload)]]
    /\ UNCHANGED <<service, thresholds, pipeline, predictions, alerts, session, call, http, clock, loader>>

SpecValidate == InitValidate /\ [][ApplyLoanApplication]_vars

\* C22: a payload is accepted only if every required field is present and every numeric
\* field is within its bounds (the six non-negative ones >= 0, credit_score in 300..850,
\* employment_length in 0..60, bounds included); otherwise there is a validation error
\* and no validated object; an accepted number is stored exactly as given, never clamped.
C22_BoundsEnforcedNotClamped ==
    fn.op = "validate" =>
        LET payload == fn.payload
            present == RequiredFields \subseteq DOMAIN payload
            within ==
                /\ \A f \in {"loan_amount", "interest_rate", "annual_income", "dti",
                              "num_delinquencies", "previous_defaults"} \cap DOMAIN payload :
                      payload[f] >= 0
                /\ "credit_score" \in DOMAIN payload =>
                      payload.credit_score \in 300..850
                /\ "employment_length" \in DOMAIN payload =>
                      payload.employment_length \in 0..60
        IN  /\ fn.out.ok <=> (present /\ within)
            /\ ~fn.out.ok => ("object" \notin DOMAIN fn.out /\ fn.out.errors # {})
            /\ fn.out.ok => \A f \in NumericFields : fn.out.object[f] = payload[f]

\* a payload with credit_score 850 and employment_length 60, both on their upper bound,
\* was accepted with the two values as given
C22_Witness ==
    /\ fn.op = "validate" /\ fn.out.ok
    /\ fn.payload.credit_score = 850 /\ fn.out.object.credit_score = 850
    /\ fn.payload.employment_length = 60 /\ fn.out.object.employment_length = 60

----------------------------------------------------------------------------
(* The standalone ML service: api/services/ml_service.py *)

\* load_model_components may be called this many times
MaxLoads == 4

\* where a load stops: nowhere, or at the model, the scaler or the columns file
LoadOutcomes == {"ok", "model", "scaler", "columns"}

\* the request bodies /predict is given: none, one that transforms, one that raises
MlBodies == {"none", "applicant", "malformed"}

\* the module globals after import: MODEL, SCALER, FEATURE_COLUMNS, MODEL_LOADED_AT are
\* None (0); a loaded component is written as the number of the load it came from
MlImported ==
    [op |-> "ml", phase |-> "imported", MODEL |-> 0, SCALER |-> 0, FEATURE_COLUMNS |-> 0,
     MODEL_LOADED_AT |-> 0, loads |-> 0, last |-> "none"]

\* load_model_components: the three globals are assigned one after the other, each as
\* soon as its file is read; the first failure returns False and keeps what was assigned
LoadModelComponents(ml, outcome) ==
    LET n == ml.loads + 1 IN
    [ml EXCEPT !.loads = n,
               !.MODEL = IF outcome # "model" THEN n ELSE @,
               !.SCALER = IF outcome \in {"ok", "columns"} THEN n ELSE @,
               !.FEATURE_COLUMNS = IF outcome = "ok" THEN n ELSE @,
               !.MODEL_LOADED_AT = IF outcome = "ok" THEN n ELSE @,
               !.last = IF outcome = "ok" THEN "ok" ELSE "failed"]

InitMl ==
    /\ service = "off"
    /\ thresholds = [low |-> 0, medium |-> 0]
    /\ pipeline = <<>>
    /\ predictions = <<>>
    /\ alerts = <<>>
    /\ session = EmptySession
    /\ call = Idle
    /\ http = NoResponse
    /\ fn = NoFn
    /\ clock = 0
    /\ loader = MlImported

\* ml_service.py 500-519: run as a script, the service loads its components and serves,
\* or exits when the load fails
MlMain(outcome) ==
    /\ loader.phase = "imported"
    /\ loader' = [LoadModelComponents(loader, outcome) EXCEPT
                      !.phase = IF outcome = "ok" THEN "serving" ELSE "exited"]
    /\ UNCHANGED <<service, thresholds, pipeline, predictions, alerts, session, call, http, fn, clock>>

\* ml_service.py 24: app is served by a server that imports the module; the __main__
\* block does not run and nothing is loaded
MlServeImported ==
    /\ loader.phase = "imported"
    /\ loader' = [loader EXCEPT !.phase = "serving"]
    /\ UNCHANGED <<service, thresholds, pipeline, predictions, alerts, session, call, http, fn, clock>>

\* ml_service.py 475-496: POST /model/reload
ReloadModel(outcome) ==
    /\ loader.phase = "serving"
    /\ loader.loads < MaxLoads
    /\ loader' = LoadModelComponents(loader, outcome)
    /\ call' = [Idle EXCEPT !.kind = "ml_reload", !.pc = "done"]
    /\ http' = IF outcome = "ok"
               THEN [status |-> 200, keys |-> {"success", "message", "loaded_at"}, items |-> <<>>]
               ELSE [status |-> 500, keys |-> {"success", "error"}, items |-> <<>>]
    /\ UNCHANGED <<service, thresholds, pipeline, predictions, alerts, session, fn, clock>>

\* ml_service.py 313-425: POST /predict; 503 when a component is None, else the body is
\* scored with the three components as they are
MlPredict(body) ==
    /\ loader.phase = "serving"
    /\ call' = [Idle EXCEPT !.kind = "ml_predict", !.pc = "done"]
    /\ http' =
          IF loader.MODEL = 0 \/ loader.SCALER = 0 \/ loader.FEATURE_COLUMNS = 0
          THEN [status |-> 503, keys |-> {"success", "error"}, items |-> <<>>]
          ELSE IF body = "none"
          THEN [status |-> 400, keys |-> {"success", "error"}, items |-> <<>>]
          ELSE IF body = "malformed"
          THEN [status |-> 500, keys |-> {"success", "error"}, items |-> <<>>]
          ELSE [status |-> 200, keys |-> {"success", "data"},
                items |-> <<[MODEL |-> loader.MODEL, SCALER |-> loader.SCALER,
                             FEATURE_COLUMNS |-> loader.FEATURE_COLUMNS]>>]
    /\ UNCHANGED <<service, thresholds, pipeline, predictions, alerts, session, fn, clock, loader>>

NextMl ==
    \/ \E outcome \in LoadOutcomes : MlMain(outcome)
    \/ MlServeImported
    \/ \E outcome \in LoadOutcomes : ReloadModel(outcome)
    \/ \E body \in MlBodies : MlPredict(body)

SpecMl == InitMl /\ [][NextMl]_vars

\* a /predict request of the standalone service has been answered
MlPredictDone == call.kind = "ml_predict" /\ call.pc = "done"

\* C23: while the artifact is absent or its last load failed, every prediction call is
\* answered service-unavailable, until an explicit reload succeeds; a prediction call
\* never loads anything itself. Stated in its weakest form: no prediction call succeeds
\* between a failed load and the next successful one.
C23_UnavailableUntilReloadSucceeds ==
    (MlPredictDone /\ loader.last # "ok") => http.status # 200

\* C30: a reload that fails part-way leaves MODEL, SCALER and FEATURE_COLUMNS as they
\* were, so the three always come from the same successful load, and /predict is served
\* only with such a triple.
C30_ReloadKeepsConsistentTriple ==
    (loader.op = "ml" /\ loader.phase = "serving") =>
        /\ (loader.MODEL # 0 /\ loader.SCALER # 0 /\ loader.FEATURE_COLUMNS # 0) =>
              /\ loader.MODEL = loader.SCALER
              /\ loader.SCALER = loader.FEATURE_COLUMNS
        /\ (MlPredictDone /\ http.status = 200) =>
              /\ http.items[1].MODEL = http.items[1].SCALER
              /\ http.items[1].SCALER = http.items[1].FEATURE_COLUMNS

----------------------------------------------------------------------------
(* Batches over a failing ledger *)

\* the items of the call whose ledger write went through
LoggedItems == {k \in DOMAIN call.failures : call.failures[k] = "none"}

\* C24: within predict_batch a ledger write failure for item i does not keep the entry
\* of any other item from being written, and the call still returns all n results in
\* input order.
C24_BatchItemsLoggedIndependently ==
    (call.kind = "batch" /\ Returned) =>
        /\ Len(call.results) = Len(call.payloads)
        /\ Len(call.failures) = Len(call.payloads)
        /\ \A k \in DOMAIN call.results :
              /\ call.results[k].application_id = call.payloads[k].application_id
              /\ call.results[k].probability =
                    pipeline[PrepareRow(LoanApplication(call.payloads[k]))]
        /\ Len(predictions) = call.pred0 + Cardinality(LoggedItems)
        /\ \A k \in LoggedItems :
              LET entry == predictions[call.pred0 + Cardinality({j \in LoggedItems : j <= k})]
              IN  /\ entry.features = LoanApplication(call.payloads[k])
                  /\ entry.probability = call.results[k].probability
                  /\ entry.risk_category = call.results[k].risk_category

\* a batch of two returned two results; the write for the first item failed and the
\* entry of the second was written
C24_Witness ==
    /\ call.kind = "batch" /\ Returned
    /\ Len(call.results) = 2
    /\ call.failures[1] # "none" /\ call.failures[2] = "none"
    /\ Len(predictions) = call.pred0 + 1
    /\ predictions[call.pred0 + 1].features = LoanApplication(call.payloads[2])

\* C25: in every reachable ledger state, whatever writes failed, every alert references
\* an existing prediction that is HIGH and marked "YES", every prediction marked "YES"
\* has exactly one alert, and a prediction is marked "YES" iff it is HIGH.
C25_AlertsMatchMarkedPredictions ==
    /\ \A a \in DOMAIN alerts :
          \E k \in DOMAIN predictions :
              /\ predictions[k].id = alerts[a].prediction_id
              /\ predictions[k].risk_category = "HIGH"
              /\ predictions[k].alert_triggered = "YES"
    /\ \A k \in DOMAIN predictions :
          /\ predictions[k].alert_triggered = "YES" <=> predictions[k].risk_category = "HIGH"
          /\ predictions[k].alert_triggered \in {"YES", "NO"}
          /\ Cardinality({a \in DOMAIN alerts : alerts[a].prediction_id = predictions[k].id})
                = IF predictions[k].alert_triggered = "YES" THEN 1 ELSE 0

\* over a ledger holding a HIGH prediction and its alert, the alert INSERT of the next
\* HIGH call raised: the ledger still holds the one pair, nothing else
C25_Witness ==
    /\ call.pc = "logged" /\ call.cur = <<"HIGH", TRUE>>
    /\ \E k \in DOMAIN call.failures : call.failures[k] = "alert"
    /\ Len(predictions) = 1 /\ Len(alerts) = 1
    /\ predictions[1].alert_triggered = "YES"
    /\ alerts[1].prediction_id = predictions[1].id

----------------------------------------------------------------------------
(* predict_one on several worker threads at once *)

\* the worker threads, one predict_one call each
NumThreads == 2
Threads == 1..NumThreads

\* a thread's call: its position, its locals, the prediction id its flush returned
ThreadCall(payload) ==
    [pc |-> "received", payload |-> payload, app |-> <<>>, prob |-> 0, cur |-> <<>>,
     prediction_id |-> 0, result |-> <<>>]

\* every thread holds a valid payload; scoped_session gives each thread a Session of its
\* own; writer is the thread whose transaction holds the database's write lock (0: none)
InitThreads ==
    /\ service = "up"
    /\ thresholds = [low |-> 30, medium |-> 60]
    /\ pipeline = [row \in FeatureRows |-> IF row.profile = 1 THEN 10 ELSE 90]
    /\ predictions = <<>>
    /\ alerts = <<>>
    /\ session = [t \in Threads |-> EmptySession]
    /\ \E given \in [Threads -> {p \in Payloads : LoanApplicationValid(p)}] :
          call = [kind |-> "threads", writer |-> 0,
                  thread |-> [t \in Threads |-> ThreadCall(given[t])]]
    /\ http = NoResponse
    /\ fn = NoFn
    /\ clock = 0
    /\ loader = NoLoader

\* predictor.py 112-120: validate, score, categorize; nothing shared is written
ThreadPredictOne(t) ==
    /\ call.thread[t].pc = "received"
    /\ LET app == LoanApplication(call.thread[t].payload)
           probability == pipeline[PrepareRow(app)]
       IN  call' = [call EXCEPT !.thread[t].pc = "categorized",
                                !.thread[t].app = app,
                                !.thread[t].prob = probability,
                                !.thread[t].cur = CategorizeRisk(thresholds, probability)]
    /\ UNCHANGED <<service, thresholds, pipeline, predictions, alerts, session, http, fn, clock, loader>>

\* a flush that does not wait for the write lock and numbers its row from the committed table
ThreadLogPredictionUnlocked(t) ==
    /\ call.thread[t].pc = "categorized"
    /\ LET me == call.thread[t]
           row == LogPredictionRow(NextId(predictions), me.app, me.prob, me.cur[1], me.cur[2])
       IN  /\ session' = [session EXCEPT ![t] = [flushed |-> <<row>>, pending |-> <<>>]]
           /\ call' = [call EXCEPT !.thread[t].prediction_id = row.id,
                                    !.thread[t].pc = IF me.cur[2] THEN "log_alert" ELSE "log_commit"]
    /\ UNCHANGED <<service, thresholds, pipeline, predictions, alerts, http, fn, clock, loader>>

\* predictor.py 160-168, crud.log_prediction: the flush sends the INSERT. It is the first
\* statement of the transaction and takes the write lock; while another transaction
\* holds the lock the INSERT waits. The table assigns the id under the lock.
ThreadLogPrediction(t) ==
    /\ call.thread[t].pc = "categorized"
    /\ call.writer = 0
    /\ LET me == call.thread[t]
           row == LogPredictionRow(NextId(predictions), me.app, me.prob, me.cur[1], me.cur[2])
       IN  /\ session' = [session EXCEPT ![t] = [flushed |-> <<row>>, pending |-> <<>>]]
           /\ call' = [call EXCEPT !.writer = t,
                                    !.thread[t].prediction_id = row.id,
                                    !.thread[t].pc = IF me.cur[2] THEN "log_alert" ELSE "log_commit"]
    /\ UNCHANGED <<service, thresholds, pipeline, predictions, alerts, http, fn, clock, loader>>

\* predictor.py 169-173, crud.create_alert: session.add on the thread's own session
ThreadCreateAlert(t) ==
    /\ call.thread[t].pc = "log_alert"
    /\ session' = [session EXCEPT ![t].pending =
                      Append(@, CreateAlertObject(session[t].flushed[1], call.thread[t].app,
                                                  call.thread[t].prob))]
    /\ call' = [call EXCEPT !.thread[t].pc = "log_commit"]
    /\ UNCHANGED <<service, thresholds, pipeline, predictions, alerts, http, fn, clock, loader>>

\* db/base.py 69: session.commit() sends the alert INSERT and commits; the lock is released
ThreadSessionCommit(t) ==
    /\ call.thread[t].pc = "log_commit"
    /\ predictions' = CommitRows(predictions, session[t].flushed)
    /\ alerts' = InsertAlerts(alerts, session[t].pending)
    /\ session' = [session EXCEPT ![t] = EmptySession]
    /\ call' = [call EXCEPT !.writer = 0, !.thread[t].pc = "logged"]
    /\ UNCHANGED <<service, thresholds, pipeline, http, fn, clock, loader>>

\* predictor.py 124-130: the thread's PredictionResponse
ThreadReturn(t) ==
    /\ call.thread[t].pc = "logged"
    /\ LET me == call.thread[t] IN
       call' = [call EXCEPT !.thread[t].pc = "returned",
                            !.thread[t].result =
                                PredictionResponse(me.app, me.prob, me.cur[1], me.cur[2], thresholds)]
    /\ UNCHANGED <<service, thresholds, pipeline, predictions, alerts, session, http, fn, clock, loader>>

NextThreads ==
    \E t \in Threads :
        \/ ThreadPredictOne(t)
        \/ ThreadLogPrediction(t)
        \/ ThreadCreateAlert(t)
        \/ ThreadSessionCommit(t)
        \/ ThreadReturn(t)

SpecThreads == InitThreads /\ [][NextThreads]_vars

\* every thread's call has returned
AllReturned == call.kind = "threads" /\ \A t \in Threads : call.thread[t].pc = "returned"

\* C26: N concurrent predict_one calls over a working ledger end, in every interleaving,
\* with exactly N new prediction entries with pairwise distinct ids, each carrying the
\* probability and category of its own call, and each HIGH call's alert referencing that
\* call's own prediction: nothing lost, duplicated or cross-linked.
C26_ConcurrentCallsKeepTheirEntries ==
    AllReturned =>
        /\ Len(predictions) = NumThreads
        /\ \A j, k \in DOMAIN predictions : j # k => predictions[j].id # predictions[k].id
        /\ \A t, u \in Threads :
              t # u => call.thread[t].prediction_id # call.thread[u].prediction_id
        /\ \A t \in Threads :
              LET me == call.thread[t]
                  mine == {k \in DOMAIN predictions : predictions[k].id = me.prediction_id}
                  linked == {a \in DOMAIN alerts : alerts[a].prediction_id = me.prediction_id}
              IN  /\ Cardinality(mine) = 1
                  /\ \A k \in mine :
                        /\ predictions[k].features = me.app
                        /\ predictions[k].probability = me.result.probability
                        /\ predictions[k].risk_category = me.result.risk_category
                  /\ Cardinality(linked) = IF me.result.risk_category = "HIGH" THEN 1 ELSE 0
                  /\ \A a \in linked :
                        /\ alerts[a].message.application_id = me.app.application_id
                        /\ alerts[a].message.probability = me.result.probability
        /\ Len(alerts) = Cardinality({t \in Threads : call.thread[t].result.risk_category = "HIGH"})
        /\ \A a, b \in DOMAIN alerts : a # b => alerts[a].id # alerts[b].id

\* two HIGH calls ran at once, the second flushing only after the first committed; each
\* has its own entry and its own alert
C26_Witness ==
    /\ AllReturned
    /\ \A t \in Threads : call.thread[t].result.risk_category = "HIGH"
    /\ Len(predictions) = NumThreads /\ Len(alerts) = NumThreads
    /\ call.thread[1].prediction_id > call.thread[NumThreads].prediction_id

----------------------------------------------------------------------------
(* predict_batch on one payload and predict_one *)

\* what a scoring call on the single payload a owes, whichever of the two methods
\* serves it: the result, and the rows added to the ledger it started from
OwedResult(a) ==
    LET app == LoanApplication(a)
        probability == pipeline[PrepareRow(app)]
        category == CategorizeRisk(thresholds, probability)
    IN  PredictionResponse(app, probability, category[1], category[2], thresholds)

OwedPredictions(a, before) ==
    LET owed == OwedResult(a) IN
    Append(before, LogPredictionRow(NextId(before), LoanApplication(a), owed.probability,
                                    owed.risk_category, owed.alert))

OwedAlerts(a, before, entry) ==
    LET owed == OwedResult(a) IN
    IF owed.alert
    THEN InsertAlerts(before, <<CreateAlertObject(entry, LoanApplication(a), owed.probability)>>)
    ELSE before

\* C27: predict_batch on the one-element list [a] is equivalent to predict_one(a): the
\* one result it returns equals predict_one's result and the ledger gets the same
\* prediction entry and the same alert. Both are held against the same owed outcome,
\* which does not depend on the method; a payload that one refuses the other refuses.
C27_BatchOfOneIsPredictOne ==
    /\ (Returned /\ Len(call.payloads) = 1) =>
          /\ call.results = <<OwedResult(call.payloads[1])>>
          /\ WorkingLedger =>
                /\ predictions = OwedPredictions(call.payloads[1], call.ledger0[1])
                /\ alerts = OwedAlerts(call.payloads[1], call.ledger0[2],
                                       predictions[Len(predictions)])
          /\ ~WorkingLedger => (predictions = call.ledger0[1] /\ alerts = call.ledger0[2])
    /\ (call.pc = "done" /\ call.kind \in {"one", "batch"} /\ Len(call.payloads) = 1
          /\ ~LoanApplicationValid(call.payloads[1])) =>
          (call.results = <<>> /\ predictions = call.ledger0[1] /\ alerts = call.ledger0[2])

\* over a ledger that holds the entry and alert of a HIGH payload, predict_batch on the
\* list of that one payload returned and left a second entry and alert like the first
C27_Witness ==
    /\ call.kind = "batch" /\ Returned /\ WorkingLedger /\ Len(call.payloads) = 1
    /\ call.results[1].risk_category = "HIGH"
    /\ Len(predictions) = 2 /\ Len(alerts) = 2
    /\ predictions[1].features = predictions[2].features
    /\ predictions[1].probability = predictions[2].probability
    /\ alerts[1].message.probability = alerts[2].message.probability

----------------------------------------------------------------------------
(* Categories and decisions *)

\* C28 as stated: for any configured thresholds with 0 <= low <= medium <= 1, a
\* probability categorized HIGH (alert raised) is never approved by
\* evaluate_lending_rules with its default thresholds.
C28_HighNeverApproved ==
    (fn.op = "both" /\ ThresholdsOrdered(fn.th)) =>
        (fn.out.category = <<"HIGH", TRUE>> => ~fn.out.decision.approved)

\* C28 amended: the same for configured thresholds whose medium is not below the default
\* risk threshold 0.20; with medium below 0.20 a probability from medium up to 0.20 is
\* HIGH and is approved when the DTI allows.
C28_HighNeverApprovedFromDefaultUp ==
    (fn.op = "both" /\ ThresholdsOrdered(fn.th) /\ fn.th.medium >= DefaultRiskThreshold) =>
        (fn.out.category = <<"HIGH", TRUE>> => ~fn.out.decision.approved)

\* medium = 0.20: the probability 0.20 is HIGH, and with a DTI of 0.20 it is denied
C28_Witness ==
    /\ fn.op = "both" /\ fn.th.medium = DefaultRiskThreshold
    /\ fn.probability = DefaultRiskThreshold
    /\ NormalizeDti(fn.application.dti) < DefaultDtiThreshold
    /\ fn.out.category = <<"HIGH", TRUE>> /\ ~fn.out.decision.approved

----------------------------------------------------------------------------
(* _normalize_dti on two validated dti values *)

\* raw dti values (ten-thousandths): ratios up to 1, values just above 1, percentages up
\* to 100 and above
NormalizeDtis == {0, 2000, 4500, 10000, 10001, 15000, 200000, 450000, 1000000, 1000100, 1500000}

InitNormalize ==
    /\ service = "off"
    /\ thresholds = [low |-> 0, medium |-> 0]
    /\ pipeline = <<>>
    /\ predictions = <<>>
    /\ alerts = <<>>
    /\ session = EmptySession
    /\ call = Idle
    /\ http = NoResponse
    /\ clock = 0
    /\ loader = NoLoader
    /\ \E smaller \in NormalizeDtis, larger \in NormalizeDtis :
          /\ FieldInBounds("dti", smaller) /\ FieldInBounds("dti", larger)
          /\ smaller <= larger
          /\ fn = [op |-> "dtis", smaller |-> smaller, larger |-> larger, out |-> <<>>]

\* dti_ratio = _normalize_dti(application.dti) for each of the two values
ApplyNormalizeDti ==
    /\ fn.op = "dtis"
    /\ fn' = [fn EXCEPT !.op = "normalized",
                        !.out = [smaller |-> NormalizeDti(fn.smaller),
                                 larger |-> NormalizeDti(fn.larger)]]
    /\ UNCHANGED <<service, thresholds, pipeline, predictions, alerts, session, call, http, clock, loader>>

SpecNormalize == InitNormalize /\ [][ApplyNormalizeDti]_vars

\* C29: for every dti >= 0 the normalized DTI lies in [0,1], and a larger raw dti never
\* yields a smaller normalized ratio.
C29_NormalizedInUnitIntervalAndMonotone ==
    fn.op = "normalized" =>
        /\ fn.out.smaller \in 0..10000 /\ fn.out.larger \in 0..10000
        /\ fn.out.smaller <= fn.out.larger

============================================================================
